---- MODULE Spec2Model ----
(***************************************************************************)
(* Cash-flow projection core of app.py: project_cash_flow (the             *)
(* deterministic monthly ledger) and monte_carlo_cash_flow (the per-month  *)
(* profit distribution summary), driven in the order the script calls      *)
(* them.  Python floats are modelled as exact rationals in lowest terms.   *)
(***************************************************************************)
EXTENDS Integers, Sequences, FiniteSets, TLC

VARIABLES params, rng, pc, m, data, df, mean_rev, std_rev, raw_samples,
          rev_samples, results, summary

vars == <<params, rng, pc, m, data, df, mean_rev, std_rev, raw_samples,
          rev_samples, results, summary>>

(***************************************************************************)
(* Bounds of the model.                                                    *)
(***************************************************************************)
MaxHorizon == 3
MaxSimulations == 3

(***************************************************************************)
(* Exact rational arithmetic standing for Python float arithmetic.         *)
(***************************************************************************)
Abs(x) == IF x < 0 THEN -x ELSE x

RECURSIVE GCD(_, _)
GCD(a, b) == IF b = 0 THEN a ELSE GCD(b, a % b)

Rat(n, d) ==
  LET g == GCD(Abs(n), Abs(d))
      s == IF d < 0 THEN -1 ELSE 1
  IN  [n |-> s * (n \div g), d |-> s * (d \div g)]

RInt(i) == [n |-> i, d |-> 1]

RMul(a, b) ==
  LET g1 == GCD(Abs(a.n), b.d)
      g2 == GCD(Abs(b.n), a.d)
  IN  Rat((a.n \div g1) * (b.n \div g2), (a.d \div g2) * (b.d \div g1))

RAdd(a, b) ==
  LET g == GCD(a.d, b.d)
      l == (a.d \div g) * b.d
  IN  Rat(a.n * (l \div a.d) + b.n * (l \div b.d), l)

RNeg(a) == [n |-> -a.n, d |-> a.d]

RSub(a, b) == RAdd(a, RNeg(b))

RLeq(a, b) == RSub(a, b).n <= 0

RLess(a, b) == RSub(a, b).n < 0

RECURSIVE RPow(_, _)
RPow(a, k) == IF k = 0 THEN RInt(1) ELSE RMul(a, RPow(a, k - 1))

RMax(a, b) == IF RLess(a, b) THEN b ELSE a

RFloor(a) == a.n \div a.d

(***************************************************************************)
(* Program constants.                                                      *)
(***************************************************************************)
MonthsPerYear == 12
WeeksPerMonth == 4
NoiseShare == Rat(15, 100)
LowerQ == 5
UpperQ == 95

(***************************************************************************)
(* Inputs: the parameter snapshots the two functions are called with.      *)
(***************************************************************************)
Half == Rat(1, 2)
One == RInt(1)
OneAndHalf == Rat(3, 2)

FlatSeason == [i \in 1..MonthsPerYear |-> One]
PeakSeason == <<Half, Half, One, One, OneAndHalf, OneAndHalf,
                OneAndHalf, OneAndHalf, One, One, Half, Half>>
RampSeason == <<Half, One, OneAndHalf, Half, One, OneAndHalf,
                One, One, OneAndHalf, OneAndHalf, Half, One>>

SeasonalityInputs == {FlatSeason, PeakSeason, RampSeason}
\* <<monthly_costs, jobs_per_week, avg_revenue_per_job>>
BusinessInputs == {<<500, 10, 180>>, <<0, 1, 50>>, <<500, 1, 50>>}
GrowthInputs == {RInt(0), Rat(1, 4), Rat(1, 2)}
HorizonInputs == 0..MaxHorizon
SimulationInputs == 1..MaxSimulations
\* standard-normal deviates the generator can hand out
Deviates == {-200, -1, 2}

(***************************************************************************)
(* project_cash_flow                                                       *)
(***************************************************************************)
Months_OneMore(horizon_years) == horizon_years * MonthsPerYear + 1

Months(horizon_years) == horizon_years * MonthsPerYear

MonthIndex_Shifted(mm) == (mm + 1) % MonthsPerYear

MonthIndex(mm) == mm % MonthsPerYear

YearIndex_Early(mm) == (mm + 1) \div MonthsPerYear

YearIndex(mm) == mm \div MonthsPerYear

GrowthMultiplier_Simple(annual_growth_rate, year_index) ==
  RAdd(RInt(1), RMul(annual_growth_rate, RInt(year_index)))

GrowthMultiplier(annual_growth_rate, year_index) ==
  RPow(RAdd(RInt(1), annual_growth_rate), year_index)

\* seasonality_factors is a Python list, indexed from 0
Season(seasonality_factors, month_index) == seasonality_factors[month_index + 1]

MonthlyRevenue_NoWeeks(p, mm) ==
  RMul(RMul(RInt(p.jobs_per_week * p.avg_revenue_per_job),
            Season(p.seasonality_factors, MonthIndex(mm))),
       GrowthMultiplier(p.annual_growth_rate, YearIndex(mm)))

MonthlyRevenue(p, mm) ==
  RMul(RMul(RInt(p.jobs_per_week * WeeksPerMonth * p.avg_revenue_per_job),
            Season(p.seasonality_factors, MonthIndex(mm))),
       GrowthMultiplier(p.annual_growth_rate, YearIndex(mm)))

MonthlyProfit_Swapped(monthly_revenue, monthly_costs) ==
  RSub(RInt(monthly_costs), monthly_revenue)

MonthlyProfit(monthly_revenue, monthly_costs) ==
  RSub(monthly_revenue, RInt(monthly_costs))

LedgerRow(p, mm) ==
  LET monthly_revenue == MonthlyRevenue(p, mm)
  IN  [Month   |-> mm + 1,
       Year    |-> YearIndex(mm) + 1,
       Revenue |-> monthly_revenue,
       Costs   |-> RInt(p.monthly_costs),
       Profit  |-> MonthlyProfit(monthly_revenue, p.monthly_costs)]

CumSum_NoCarry(s) == s

\* Series.cumsum: left-to-right running total
RECURSIVE CumSum(_)
CumSum(s) ==
  IF Len(s) = 0 THEN <<>>
  ELSE LET front == CumSum(SubSeq(s, 1, Len(s) - 1))
       IN  IF Len(front) = 0 THEN <<s[1]>>
           ELSE Append(front, RAdd(front[Len(front)], s[Len(s)]))

DataFrame(rows) ==
  LET cum == CumSum([k \in 1..Len(rows) |-> rows[k].Profit])
  IN  [k \in 1..Len(rows) |->
         [Month |-> rows[k].Month, Year |-> rows[k].Year,
          Revenue |-> rows[k].Revenue, Costs |-> rows[k].Costs,
          Profit |-> rows[k].Profit, CumulativeProfit |-> cum[k]]]

(***************************************************************************)
(* monte_carlo_cash_flow                                                   *)
(***************************************************************************)
MeanRev_NoGrowth(p, mm) ==
  RMul(RInt(p.jobs_per_week * WeeksPerMonth * p.avg_revenue_per_job),
       Season(p.seasonality_factors, MonthIndex(mm)))

MeanRev(p, mm) ==
  LET season == Season(p.seasonality_factors, MonthIndex(mm))
      growth == RPow(RAdd(RInt(1), p.annual_growth_rate), YearIndex(mm))
  IN  RMul(RMul(RInt(p.jobs_per_week * WeeksPerMonth * p.avg_revenue_per_job),
                season), growth)

StdRev(p) == RMul(RInt(p.avg_revenue_per_job), NoiseShare)

\* np.random.normal(loc, scale, size): loc + scale * z for each deviate z
Normal(loc, scale, size, stream) ==
  [i \in 1..size |-> RAdd(loc, RMul(scale, RInt(stream[i])))]

Clamp_Off(samples) == samples

\* np.maximum(0, rev_samples)
Clamp(samples) == [i \in 1..Len(samples) |-> RMax(RInt(0), samples[i])]

ProfitSamples(samples, monthly_costs) ==
  [i \in 1..Len(samples) |-> RSub(samples[i], RInt(monthly_costs))]

\* np.zeros((simulations, months)), kept month-major: results[month][simulation]
Zeros(simulations, months) ==
  [k \in 1..months |-> [i \in 1..simulations |-> RInt(0)]]

Sorted(column) == SortSeq(column, LAMBDA a, b: RLess(a, b))

\* np.percentile, default linear interpolation between order statistics
Percentile(column, q) ==
  LET s    == Sorted(column)
      idx  == Rat((Len(s) - 1) * q, 100)
      lo   == RFloor(idx)
      hi   == IF lo + 1 <= Len(s) - 1 THEN lo + 1 ELSE lo
      frac == RSub(idx, RInt(lo))
  IN  RAdd(s[lo + 1], RMul(RSub(s[hi + 1], s[lo + 1]), frac))

\* np.median: middle order statistic, or the mean of the two middle ones
Median(column) ==
  LET s == Sorted(column)
      n == Len(s)
  IN  IF n % 2 = 1 THEN s[(n - 1) \div 2 + 1]
      ELSE RMul(RAdd(s[n \div 2], s[n \div 2 + 1]), Half)

Summary_Swapped(res) ==
  [k \in 1..Len(res) |->
     [Month        |-> k,
      MedianProfit |-> Median(res[k]),
      Lower_5pct   |-> Percentile(res[k], UpperQ),
      Upper_95pct  |-> Percentile(res[k], LowerQ)]]

Summary(res) ==
  [k \in 1..Len(res) |->
     [Month        |-> k,
      MedianProfit |-> Median(res[k]),
      Lower_5pct   |-> Percentile(res[k], LowerQ),
      Upper_95pct  |-> Percentile(res[k], UpperQ)]]

(***************************************************************************)
(* State machine                                                           *)
(***************************************************************************)
Init ==
  /\ params \in
       {[monthly_costs |-> b[1], jobs_per_week |-> b[2],
         avg_revenue_per_job |-> b[3], seasonality_factors |-> sf,
         annual_growth_rate |-> g, horizon_years |-> h,
         simulations |-> 0, use_monte_carlo |-> u] :
          b \in BusinessInputs, sf \in SeasonalityInputs, g \in GrowthInputs,
          h \in HorizonInputs, u \in BOOLEAN}
  /\ rng = <<>>
  /\ pc = "project"
  /\ m = 0
  /\ data = <<>>
  /\ df = <<>>
  /\ mean_rev = RInt(0)
  /\ std_rev = RInt(0)
  /\ raw_samples = <<>>
  /\ rev_samples = <<>>
  /\ results = <<>>
  /\ summary = <<>>

\* one pass of the loop of project_cash_flow
ProjectLoop ==
  /\ pc = "project"
  /\ m < Months(params.horizon_years)
  /\ data' = Append(data, LedgerRow(params, m))
  /\ m' = m + 1
  /\ UNCHANGED <<params, rng, pc, df, mean_rev, std_rev, raw_samples,
                 rev_samples, results, summary>>

\* the loop is over: build the frame, add the cumulative column, return
ProjectReturn ==
  /\ pc = "project"
  /\ m >= Months(params.horizon_years)
  /\ df' = DataFrame(data)
  /\ pc' = "main"
  /\ UNCHANGED <<params, rng, m, data, mean_rev, std_rev, raw_samples,
                 rev_samples, results, summary>>

\* the script calls monte_carlo_cash_flow when the checkbox is set
\* (line 175).  The generator is unseeded: rng is the vector of standard-normal
\* deviates it hands out per call of np.random.normal, any vector over Deviates;
\* one call of monte_carlo_cash_flow replays that vector in every month.
MonteCarloCall ==
  /\ pc = "main"
  /\ params.use_monte_carlo
  /\ \E sims \in SimulationInputs :
       /\ params' = [params EXCEPT !.simulations = sims]
       /\ rng' \in [1..sims -> Deviates]
       /\ results' = Zeros(sims, Months(params.horizon_years))
  /\ m' = 0
  /\ pc' = "simulate"
  /\ UNCHANGED <<data, df, mean_rev, std_rev, raw_samples, rev_samples, summary>>

\* one pass of the loop of monte_carlo_cash_flow
MonteCarloLoop ==
  /\ pc = "simulate"
  /\ m < Months(params.horizon_years)
  /\ LET mean  == MeanRev(params, m)
         std   == StdRev(params)
         drawn == Normal(mean, std, params.simulations, rng)
         kept  == Clamp(drawn)
     IN  /\ mean_rev' = mean
         /\ std_rev' = std
         /\ raw_samples' = drawn
         /\ rev_samples' = kept
         /\ results' = [results EXCEPT
                          ![m + 1] = ProfitSamples(kept, params.monthly_costs)]
  /\ m' = m + 1
  /\ UNCHANGED <<params, rng, pc, data, df, summary>>

\* the loop is over: reduce every month's column and return the summary
MonteCarloReturn ==
  /\ pc = "simulate"
  /\ m >= Months(params.horizon_years)
  /\ summary' = Summary(results)
  /\ pc' = "done"
  /\ UNCHANGED <<params, rng, m, data, df, mean_rev, std_rev, raw_samples,
                 rev_samples, results>>

Next ==
  \/ ProjectLoop
  \/ ProjectReturn
  \/ MonteCarloCall
  \/ MonteCarloLoop
  \/ MonteCarloReturn

Spec == Init /\ [][Next]_vars

(***************************************************************************)
(* Properties                                                              *)
(***************************************************************************)
\* project_cash_flow has returned / is returning its ledger df
Returned == pc \in {"main", "simulate", "done"}
AtReturn == pc = "main"

Base(p) == RInt(p.jobs_per_week * 4 * p.avg_revenue_per_job)

IsFlat(p) == \A i \in 1..12 : p.seasonality_factors[i] = RInt(1)

RECURSIVE ProfitUpTo(_, _)
ProfitUpTo(rows, k) ==
  IF k = 0 THEN RInt(0) ELSE RAdd(ProfitUpTo(rows, k - 1), rows[k].Profit)

\* C1: the ledger project_cash_flow returns has exactly 12 * horizon_years
\* rows; with horizon_years = 0 the call returns an empty ledger.
C1_RowCount ==
  Returned => /\ Len(df) = 12 * params.horizon_years
              /\ (params.horizon_years = 0 => df = <<>>)

C1_Witness == pc = "main" /\ params.horizon_years = 0 /\ Len(df) = 0

\* C2: in the returned ledger the Cumulative Profit of row k is the sum of
\* Profit over rows 1..k: the first row's equals its own profit, each later
\* row's equals the previous cumulative profit plus its own profit.
C2_CumulativeSum ==
  AtReturn =>
    \A k \in 1..Len(df) :
      /\ df[k].CumulativeProfit = ProfitUpTo(df, k)
      /\ (k = 1 => df[k].CumulativeProfit = df[k].Profit)
      /\ (k > 1 => df[k].CumulativeProfit =
                     RAdd(df[k - 1].CumulativeProfit, df[k].Profit))

C2_Witness ==
  /\ pc = "main"
  /\ Len(df) = 36
  /\ df[36].CumulativeProfit # df[36].Profit
  /\ df[36].CumulativeProfit # df[35].CumulativeProfit

\* C3: the row at 0-based position i has Month = i + 1 and
\* Year = floor(i / 12) + 1; Month runs 1..12 * horizon_years, Year never
\* decreases and is one more twelve rows later.
C3_MonthYear ==
  /\ \A k \in 1..Len(data) :
       data[k].Month = k /\ data[k].Year = ((k - 1) \div 12) + 1
  /\ AtReturn =>
       /\ \A k \in 1..Len(df) :
            /\ df[k].Month = k
            /\ df[k].Year = ((k - 1) \div 12) + 1
            /\ (k > 1 => df[k - 1].Year <= df[k].Year)
            /\ (k > 12 => df[k].Year = df[k - 12].Year + 1)
       /\ {df[k].Month : k \in 1..Len(df)} = 1..(12 * params.horizon_years)

C3_Witness ==
  /\ pc = "main"
  /\ Len(df) = 36
  /\ df[12].Year = 1 /\ df[13].Year = 2 /\ df[25].Year = 3 /\ df[36].Month = 36

\* C4: the Revenue of the row at 0-based month i is jobs_per_week * 4 *
\* avg_revenue_per_job * seasonality_factors[i mod 12] *
\* (1 + annual_growth_rate) ^ floor(i / 12).
C4_Revenue ==
  AtReturn =>
    \A k \in 1..Len(df) :
      df[k].Revenue =
        RMul(RMul(Base(params),
                  params.seasonality_factors[((k - 1) % 12) + 1]),
             RPow(RAdd(RInt(1), params.annual_growth_rate), (k - 1) \div 12))

C4_Witness ==
  /\ pc = "main"
  /\ Len(df) = 36
  /\ ~IsFlat(params)
  /\ params.annual_growth_rate # RInt(0)
  /\ df[2].Revenue # df[1].Revenue
  /\ df[25].Revenue # df[13].Revenue
  /\ df[13].Revenue # df[1].Revenue

\* C5: with all seasonality factors 1, a row of year y has the revenue of the
\* first row times (1 + annual_growth_rate) ^ (y - 1): revenue is the same in
\* all rows of a year and differs between neighbours only across a year
\* boundary.
C5_GrowthCompounding ==
  (AtReturn /\ IsFlat(params)) =>
    \A k \in 1..Len(df) :
      /\ df[k].Revenue =
           RMul(df[1].Revenue,
                RPow(RAdd(RInt(1), params.annual_growth_rate), df[k].Year - 1))
      /\ \A j \in 1..Len(df) :
           df[j].Year = df[k].Year => df[j].Revenue = df[k].Revenue
      /\ (k > 1 /\ df[k].Revenue # df[k - 1].Revenue => (k - 1) % 12 = 0)

C5_Witness ==
  /\ pc = "main"
  /\ IsFlat(params)
  /\ params.annual_growth_rate = Rat(1, 2)
  /\ Len(df) = 36
  /\ df[12].Revenue = df[1].Revenue
  /\ df[13].Revenue = RMul(df[1].Revenue, Rat(3, 2))
  /\ df[36].Revenue = RMul(df[1].Revenue, Rat(9, 4))

\* C6: with annual_growth_rate = 0 and all seasonality factors 1 every row
\* has Revenue = jobs_per_week * 4 * avg_revenue_per_job and Profit = that
\* revenue minus monthly_costs, and the last row's Cumulative Profit is
\* 12 * horizon_years times that profit.
C6_FlatScenario ==
  (AtReturn /\ IsFlat(params) /\ params.annual_growth_rate = RInt(0)) =>
    LET profit == RSub(Base(params), RInt(params.monthly_costs))
    IN  /\ \A k \in 1..Len(df) :
             df[k].Revenue = Base(params) /\ df[k].Profit = profit
        /\ (Len(df) > 0 =>
              df[Len(df)].CumulativeProfit =
                RMul(RInt(12 * params.horizon_years), profit))

\* costs 500, 10 jobs a week, 180 a job, one year: 7200, 6700, 80400
C6_Witness ==
  /\ pc = "main"
  /\ IsFlat(params) /\ params.annual_growth_rate = RInt(0)
  /\ params.monthly_costs = 500 /\ params.jobs_per_week = 10
  /\ params.avg_revenue_per_job = 180 /\ params.horizon_years = 1
  /\ Len(df) = 12
  /\ \A k \in 1..12 : df[k].Revenue = RInt(7200) /\ df[k].Profit = RInt(6700)
  /\ df[12].CumulativeProfit = RInt(80400)

\* C7: in every row of the summary monte_carlo_cash_flow returns,
\* Lower_5pct <= Median Profit <= Upper_95pct, whatever was drawn.
C7_PercentileOrder ==
  pc = "done" =>
    \A k \in 1..Len(summary) :
      /\ RLeq(summary[k].Lower_5pct, summary[k].MedianProfit)
      /\ RLeq(summary[k].MedianProfit, summary[k].Upper_95pct)

C7_Witness ==
  /\ pc = "done"
  /\ params.simulations = 3
  /\ Len(summary) = 36
  /\ RLess(summary[36].Lower_5pct, summary[36].MedianProfit)
  /\ RLess(summary[36].MedianProfit, summary[36].Upper_95pct)

\* C8: no revenue sample that enters the profit computation is negative (a
\* negative draw is replaced by 0), so every profit sample and every
\* Lower_5pct, Median Profit and Upper_95pct is at least -monthly_costs.
C8_NonNegativeClamp ==
  LET floor == RInt(-params.monthly_costs)
  IN  /\ \A i \in 1..Len(rev_samples) : RLeq(RInt(0), rev_samples[i])
      /\ (pc = "simulate" /\ m > 0) =>
           \A i \in 1..Len(results[m]) : RLeq(floor, results[m][i])
      /\ pc = "done" =>
           \A k \in 1..Len(results) : \A i \in 1..Len(results[k]) :
             RLeq(floor, results[k][i])
      /\ \A k \in 1..Len(summary) :
           /\ RLeq(floor, summary[k].Lower_5pct)
           /\ RLeq(floor, summary[k].MedianProfit)
           /\ RLeq(floor, summary[k].Upper_95pct)

C8_Witness ==
  /\ pc = "done"
  /\ Len(summary) = 12
  /\ params.monthly_costs = 500
  /\ \E i \in 1..Len(raw_samples) :
       /\ RLess(raw_samples[i], RInt(0))
       /\ rev_samples[i] = RInt(0)
       /\ results[12][i] = RInt(-500)
  /\ summary[12].Lower_5pct = RInt(-500)

\* C9: the two functions agree month by month: the summary has one row per
\* ledger row with the same Month values, the mean of the distribution
\* sampled for a month is the ledger Revenue of that month, and the standard
\* deviation is avg_revenue_per_job * 0.15 in every month.
C9_SameMonths ==
  /\ (pc = "simulate" /\ m > 0) =>
       /\ mean_rev = df[m].Revenue
       /\ std_rev = Rat(params.avg_revenue_per_job * 15, 100)
  /\ pc = "done" =>
       /\ Len(summary) = Len(df)
       /\ \A k \in 1..Len(summary) : summary[k].Month = df[k].Month
       /\ {summary[k].Month : k \in 1..Len(summary)} =
            1..(12 * params.horizon_years)

C9_Witness ==
  /\ pc = "simulate"
  /\ m = 30
  /\ ~IsFlat(params)
  /\ params.annual_growth_rate # RInt(0)
  /\ params.jobs_per_week = 10
  /\ mean_rev = df[30].Revenue
  /\ mean_rev # df[6].Revenue
  /\ mean_rev # df[29].Revenue
  /\ std_rev = RInt(27)

\* C10: every ledger row has Costs = monthly_costs, the same in all rows
\* whatever the season and the growth, and Profit = Revenue - Costs.
C10_CostsAndProfit ==
  AtReturn =>
    \A k \in 1..Len(df) :
      /\ df[k].Costs = RInt(params.monthly_costs)
      /\ df[k].Profit = RSub(df[k].Revenue, df[k].Costs)

C10_Witness ==
  /\ pc = "main"
  /\ Len(df) = 36
  /\ params.monthly_costs = 500
  /\ ~IsFlat(params)
  /\ params.annual_growth_rate # RInt(0)
  /\ df[1].Revenue # df[36].Revenue
  /\ df[1].Costs = df[36].Costs
  /\ RLess(df[1].Profit, RInt(0))

====
